---- MODULE Spec2Model ----
(***************************************************************************)
(* A model of the T-Prep study-aid service (src/main.py): the six HTTP     *)
(* handlers register, login, import_questions, generate_answer, ocr and    *)
(* start_review, the stores they read and write, and the deferred-task     *)
(* substrate that start_review submits its notifications to.               *)
(*                                                                         *)
(* Text is a sequence of Unicode code points, an uploaded file's content a *)
(* sequence of bytes, a file name a sequence of one-character strings.     *)
(***************************************************************************)
EXTENDS Integers, Sequences, FiniteSets, TLC

VARIABLES
    users,      \* the User table: sequence of [id, email, hashed_password]
    questions,  \* the Question table: sequence of [id, question_text, user_id]
    answers,    \* the Answer table: sequence of [id, question_id, answer_text]
    tokens,     \* the bearer tokens issued by login so far
    chatLog,    \* the prompts sent to the chat-completion capability
    tasks,      \* the deferred actions submitted to the task substrate
    calls,      \* per question id, the number of start_review calls made
    now,        \* the clock, in seconds
    last        \* the request handled last and its response

vars == <<users, questions, answers, tokens, chatLog, tasks, calls, now, last>>

stores == <<users, questions, answers, tokens, chatLog, tasks, calls, now>>

----------------------------------------------------------------------------
(* Bounds of the model *)

MaxQuestions == 1   \* import_questions is taken while fewer rows exist
MaxAnswers == 1     \* generate_answer is taken while fewer chat calls were made
MaxReviews == 2     \* start_review is taken while fewer calls were made
MaxLen == 4         \* longest byte content of a generated .txt upload
MaxTimedReviews == 1 \* start_review calls while the clock runs
MaxTicks == 1       \* idle clock steps of TickStep seconds

----------------------------------------------------------------------------
(* Inputs *)

Emails == {"ann@x", "bob@x"}

Passwords == {"pw1", "pw2"}

QuestionIds == 1..2

NoToken == <<"none">>

TickStep == 600

ChatReplies == {"reply"}

ChatFailure == "chat-failure"

OcrTexts == {"scan"}

OcrFailure == "ocr-failure"

----------------------------------------------------------------------------
(* Text helpers: the Python built-ins the handlers call *)

\* str.isspace for one code point below U+0800
isspace(c) == c \in (9..13) \cup (28..32) \cup {133, 160}

\* a variant of endswith that finds the suffix anywhere in the name
endswith_anywhere(s, suffix) ==
    \E p \in 0..(Len(s) - Len(suffix)) : SubSeq(s, p + 1, p + Len(suffix)) = suffix

\* str.endswith
endswith(s, suffix) ==
    /\ Len(s) >= Len(suffix)
    /\ SubSeq(s, Len(s) - Len(suffix) + 1, Len(s)) = suffix

\* bytes.decode("utf-8") succeeds: one- and two-byte sequences
RECURSIVE decodable(_)
decodable(b) ==
    IF b = <<>> THEN TRUE
    ELSE IF b[1] < 128 THEN decodable(Tail(b))
    ELSE IF b[1] \in 194..223 /\ Len(b) >= 2 /\ b[2] \in 128..191
         THEN decodable(SubSeq(b, 3, Len(b)))
    ELSE FALSE

\* bytes.decode("utf-8"): the code points of a decodable byte sequence
RECURSIVE decode(_)
decode(b) ==
    IF b = <<>> THEN <<>>
    ELSE IF b[1] < 128 THEN <<b[1]>> \o decode(Tail(b))
    ELSE <<(b[1] - 192) * 64 + (b[2] - 128)>> \o decode(SubSeq(b, 3, Len(b)))

\* str.split(sep) for a one-character separator
RECURSIVE split(_, _)
split(s, sep) ==
    IF \A i \in 1..Len(s) : s[i] # sep THEN <<s>>
    ELSE LET i == CHOOSE k \in 1..Len(s) :
                      s[k] = sep /\ \A j \in 1..(k - 1) : s[j] # sep
         IN  <<SubSeq(s, 1, i - 1)>> \o split(SubSeq(s, i + 1, Len(s)), sep)

RECURSIVE lstrip(_)
lstrip(s) ==
    IF s # <<>> /\ isspace(s[1]) THEN lstrip(Tail(s)) ELSE s

RECURSIVE rstrip(_)
rstrip(s) ==
    IF s # <<>> /\ isspace(s[Len(s)]) THEN rstrip(SubSeq(s, 1, Len(s) - 1)) ELSE s

\* str.strip
strip(s) == rstrip(lstrip(s))

\* a variant of stripped_lines without the filter: [line.strip() for line in lines]
RECURSIVE stripped_lines_unfiltered(_)
stripped_lines_unfiltered(lines) ==
    IF lines = <<>> THEN <<>>
    ELSE <<strip(Head(lines))>> \o stripped_lines_unfiltered(Tail(lines))

\* [line.strip() for line in lines if line.strip()]
RECURSIVE stripped_lines(_)
stripped_lines(lines) ==
    IF lines = <<>> THEN <<>>
    ELSE (IF strip(Head(lines)) # <<>> THEN <<strip(Head(lines))>> ELSE <<>>)
         \o stripped_lines(Tail(lines))

\* [para.text for para in doc.paragraphs if para.text.strip()]
RECURSIVE paragraph_texts(_)
paragraph_texts(paragraphs) ==
    IF paragraphs = <<>> THEN <<>>
    ELSE (IF strip(Head(paragraphs)) # <<>> THEN <<Head(paragraphs)>> ELSE <<>>)
         \o paragraph_texts(Tail(paragraphs))

DotTxt == <<".", "t", "x", "t">>

DotDocx == <<".", "d", "o", "c", "x">>

NotADocument == <<"not-a-document">>

----------------------------------------------------------------------------
(* The collaborators main.py imports: crud, utils, tasks *)

None == [id |-> 0]

\* crud.get_user_by_email: the row with that email, or None
get_user_by_email(db, email) ==
    IF \E i \in 1..Len(db) : db[i].email = email
    THEN db[CHOOSE i \in 1..Len(db) :
                db[i].email = email /\ \A j \in 1..(i - 1) : db[j].email # email]
    ELSE None

\* crud.create_user: one new row with a generated id
create_user(db, email, hashed_password) ==
    Append(db, [id |-> Len(db) + 1, email |-> email,
                hashed_password |-> hashed_password])

\* crud.create_question: one new row with a generated id
create_question(db, question_text, user_id) ==
    Append(db, [id |-> Len(db) + 1, question_text |-> question_text,
                user_id |-> user_id])

\* crud.create_answer: one new row with a generated id
create_answer(db, question_id, answer_text) ==
    Append(db, [id |-> Len(db) + 1, question_id |-> question_id,
                answer_text |-> answer_text])

\* db.query(Question).filter(Question.id == question_id).first()
query_question(db, question_id) ==
    IF \E i \in 1..Len(db) : db[i].id = question_id
    THEN db[CHOOSE i \in 1..Len(db) : db[i].id = question_id]
    ELSE None

\* utils.get_password_hash
get_password_hash(password) == <<"hash", password>>

\* utils.verify_password
verify_password(password, hashed_password) ==
    hashed_password = get_password_hash(password)

\* utils.create_access_token
create_access_token(data) == <<"bearer", data.sub>>

Bearers == {NoToken, create_access_token([sub |-> "ann@x"])}

----------------------------------------------------------------------------
(* Responses *)

Response(op, auth, arg, status, body) ==
    [op |-> op, auth |-> auth, arg |-> arg, status |-> status, body |-> body]

HTTPException(op, auth, arg, status_code, detail) ==
    /\ last' = Response(op, auth, arg, status_code, detail)
    /\ UNCHANGED stores

----------------------------------------------------------------------------
(* The handlers *)

Init ==
    /\ users = <<>>
    /\ questions = <<>>
    /\ answers = <<>>
    /\ tokens = {}
    /\ chatLog = <<>>
    /\ tasks = <<>>
    /\ calls = [q \in QuestionIds |-> 0]
    /\ now = 0
    /\ last = Response("none", NoToken, 0, 0, "")

\* a variant of register without the lookup of the email
register_unguarded(user) ==
    /\ users' = create_user(users, user.email, get_password_hash(user.password))
    /\ last' = Response("register", NoToken, user, 200, "User created successfully")
    /\ UNCHANGED <<questions, answers, tokens, chatLog, tasks, calls, now>>

\* POST /register
register(user) ==
    LET db_user == get_user_by_email(users, user.email) IN
    IF db_user # None
    THEN HTTPException("register", NoToken, user, 400, "Email already registered")
    ELSE /\ users' = create_user(users, user.email, get_password_hash(user.password))
         /\ last' = Response("register", NoToken, user, 200, "User created successfully")
         /\ UNCHANGED <<questions, answers, tokens, chatLog, tasks, calls, now>>

\* a variant of login that looks the email up and never verifies the password
login_without_verify(form_data) ==
    LET db_user == get_user_by_email(users, form_data.username) IN
    IF db_user = None
    THEN HTTPException("login", NoToken, form_data, 400, "Incorrect email or password")
    ELSE LET access_token == create_access_token([sub |-> db_user.email]) IN
         /\ tokens' = tokens \cup {access_token}
         /\ last' = Response("login", NoToken, form_data, 200,
                             [access_token |-> access_token, token_type |-> "bearer"])
         /\ UNCHANGED <<users, questions, answers, chatLog, tasks, calls, now>>

\* POST /token
login(form_data) ==
    LET db_user == get_user_by_email(users, form_data.username) IN
    IF db_user = None \/ ~verify_password(form_data.password, db_user.hashed_password)
    THEN HTTPException("login", NoToken, form_data, 400, "Incorrect email or password")
    ELSE LET access_token == create_access_token([sub |-> db_user.email]) IN
         /\ tokens' = tokens \cup {access_token}
         /\ last' = Response("login", NoToken, form_data, 200,
                             [access_token |-> access_token, token_type |-> "bearer"])
         /\ UNCHANGED <<users, questions, answers, chatLog, tasks, calls, now>>

\* for question_text in questions: create_question(db, question_text, user_id=1)
RECURSIVE create_questions(_, _)
create_questions(db, texts) ==
    IF texts = <<>> THEN db
    ELSE create_questions(create_question(db, Head(texts), 1), Tail(texts))

\* the body of import_questions once the list of questions is parsed
store_questions(file, auth, texts) ==
    /\ questions' = create_questions(questions, texts)
    /\ last' = Response("import_questions", auth, file, 200,
                        <<"Imported", Len(texts), "questions">>)
    /\ UNCHANGED <<users, answers, tokens, chatLog, tasks, calls, now>>

\* POST /import-questions
import_questions(file, auth) ==
    IF endswith(file.filename, DotTxt)
    THEN IF ~decodable(file.bytes)
         THEN HTTPException("import_questions", auth, file, 500, "UnicodeDecodeError")
         ELSE store_questions(file, auth,
                              stripped_lines(split(decode(file.bytes), 10)))
    ELSE IF endswith(file.filename, DotDocx)
    THEN IF file.doc = NotADocument
         THEN HTTPException("import_questions", auth, file, 500, "PackageNotFoundError")
         ELSE store_questions(file, auth, paragraph_texts(file.doc))
    ELSE HTTPException("import_questions", auth, file, 400, "Unsupported file format")

\* a variant of generate_answer that asks the chat capability before the lookup
generate_answer_unchecked(question_id, auth, outcome) ==
    LET question == query_question(questions, question_id) IN
    /\ chatLog' = Append(chatLog, IF question = None THEN <<>> ELSE question.question_text)
    /\ IF outcome = ChatFailure
       THEN /\ last' = Response("generate_answer", auth, question_id, 500, "APIError")
            /\ UNCHANGED answers
       ELSE /\ answers' = create_answer(answers, question_id, outcome)
            /\ last' = Response("generate_answer", auth, question_id, 200,
                                [answer |-> outcome])
    /\ UNCHANGED <<users, questions, tokens, tasks, calls, now>>

\* POST /generate-answer; outcome is what the chat-completion call does
generate_answer(question_id, auth, outcome) ==
    LET question == query_question(questions, question_id) IN
    IF question = None
    THEN HTTPException("generate_answer", auth, question_id, 404, "Question not found")
    ELSE /\ chatLog' = Append(chatLog, question.question_text)
         /\ IF outcome = ChatFailure
            THEN /\ last' = Response("generate_answer", auth, question_id, 500, "APIError")
                 /\ UNCHANGED answers
            ELSE /\ answers' = create_answer(answers, question_id, outcome)
                 /\ last' = Response("generate_answer", auth, question_id, 200,
                                     [answer |-> outcome])
         /\ UNCHANGED <<users, questions, tokens, tasks, calls, now>>

\* POST /ocr; outcome is what Image.open and pytesseract do with the image
ocr(image, auth, outcome) ==
    IF outcome = OcrFailure
    THEN HTTPException("ocr", auth, image, 500, "UnidentifiedImageError")
    ELSE /\ last' = Response("ocr", auth, image, 200, [text |-> outcome])
         /\ UNCHANGED stores

\* a variant of intervals in minutes instead of seconds
intervals_in_minutes == <<20, 8 * 60, 24 * 60>>

\* intervals = [20 * 60, 8 * 3600, 24 * 3600]
intervals == <<20 * 60, 8 * 3600, 24 * 3600>>

\* what the substrate holds for one accepted deferred action
Task(args, countdown) ==
    [args |-> args, countdown |-> countdown, submitted |-> now,
     eta |-> now + countdown, state |-> "pending", attempts |-> 0]

\* a variant of apply_async that drops the countdown: the action is due at once
apply_async_at_once(queue, args, countdown) ==
    Append(queue, [Task(args, countdown) EXCEPT !.eta = now])

\* schedule_notification.apply_async(args, countdown=countdown)
apply_async(queue, args, countdown) == Append(queue, Task(args, countdown))

\* for interval in intervals: apply_async((question_id, interval), countdown=interval)
RECURSIVE schedule_all(_, _, _)
schedule_all(queue, question_id, ivs) ==
    IF ivs = <<>> THEN queue
    ELSE schedule_all(apply_async(queue, <<question_id, Head(ivs)>>, Head(ivs)),
                      question_id, Tail(ivs))

\* a variant of start_review that schedules a question id only once
start_review_dedup(question_id, auth) ==
    /\ tasks' = IF \E i \in DOMAIN tasks : tasks[i].args[1] = question_id
                THEN tasks
                ELSE schedule_all(tasks, question_id, intervals)
    /\ calls' = [calls EXCEPT ![question_id] = @ + 1]
    /\ last' = Response("start_review", auth, question_id, 200, "Review scheduled")
    /\ UNCHANGED <<users, questions, answers, tokens, chatLog, now>>

\* POST /start-review
start_review(question_id, auth) ==
    /\ tasks' = schedule_all(tasks, question_id, intervals)
    /\ calls' = [calls EXCEPT ![question_id] = @ + 1]
    /\ last' = Response("start_review", auth, question_id, 200, "Review scheduled")
    /\ UNCHANGED <<users, questions, answers, tokens, chatLog, now>>

----------------------------------------------------------------------------
(* The requests the model draws *)

UserForms == [email : Emails, password : Passwords]

LoginForms == [username : Emails, password : Passwords]

Name(stem, ext) == <<stem>> \o ext

Upload(filename, bytes, doc) == [filename |-> filename, bytes |-> bytes, doc |-> doc]

\* " a\r\n\n", a text of one non-blank line
ExampleBytes == <<32, 97, 13, 10, 10>>

Uploads ==
    { Upload(Name("q", DotTxt), ExampleBytes, NotADocument),
      Upload(Name("q", <<".", "p", "d", "f">>), ExampleBytes, NotADocument),
      Upload(Name("q", DotDocx), <<80, 75>>, <<<<97>>, <<32>>, <<98, 32>>>>),
      Upload(Name("q", DotDocx), ExampleBytes, NotADocument) }

Images == {"page.png"}

Next ==
    \/ \E user \in UserForms : register(user)
    \/ \E form_data \in LoginForms : login(form_data)
    \/ \E file \in Uploads, auth \in Bearers :
          Len(questions) < MaxQuestions /\ import_questions(file, auth)
    \/ \E question_id \in QuestionIds, auth \in Bearers,
          outcome \in ChatReplies \cup {ChatFailure} :
          Len(chatLog) < MaxAnswers /\ generate_answer(question_id, auth, outcome)
    \/ \E image \in Images, auth \in Bearers, outcome \in OcrTexts \cup {OcrFailure} :
          ocr(image, auth, outcome)
    \/ \E question_id \in QuestionIds, auth \in Bearers :
          Len(tasks) < 3 * MaxReviews /\ start_review(question_id, auth)

Spec == Init /\ [][Next]_vars

----------------------------------------------------------------------------
(* import_questions on generated uploads *)

ByteAlphabet == {97, 32, 10, 13, 194, 160}

RECURSIVE ByteSeqs(_)
ByteSeqs(n) ==
    IF n = 0 THEN {<<>>}
    ELSE ByteSeqs(n - 1) \cup
         {Append(b, c) : b \in {x \in ByteSeqs(n - 1) : Len(x) = n - 1}, c \in ByteAlphabet}

FileNames ==
    { Name("q", DotTxt), DotTxt, <<"t", "x", "t">>, <<"q", ".", "T", "X", "T">>,
      Name("q", <<".", "p", "d", "f">>), Name("q", DotTxt) \o <<".", "p", "d", "f">>,
      Name("q", <<".", "d", "o", "c">>) }

Documents == {NotADocument, <<>>, <<<<97>>, <<32>>, <<98, 32>>>>, <<<<160>>, <<32, 97>>>>}

GeneratedUploads ==
    {Upload(n, b, NotADocument) : n \in FileNames, b \in ByteSeqs(MaxLen)}
    \cup {Upload(Name("q", DotDocx), <<80, 75>>, d) : d \in Documents}

\* the Question table before the upload: empty, or holding an earlier import
PriorStores == {<<>>, create_questions(<<>>, <<<<97>>, <<98>>>>)}

ImportInit ==
    /\ users = <<>>
    /\ questions \in PriorStores
    /\ answers = <<>>
    /\ tokens = {}
    /\ chatLog = <<>>
    /\ tasks = <<>>
    /\ calls = [q \in QuestionIds |-> 0]
    /\ now = 0
    /\ last = Response("none", NoToken, 0, 0, "")

ImportNext ==
    /\ last.op = "none"
    /\ \E file \in GeneratedUploads : import_questions(file, NoToken)

ImportSpec == ImportInit /\ [][ImportNext]_vars

----------------------------------------------------------------------------
(* The task substrate: accepts (payload, countdown) and invokes the action *)
(* at least once after the countdown has elapsed                           *)

Due(i) == tasks[i].state = "pending" /\ now >= tasks[i].eta

\* the substrate invokes schedule_notification for task i
deliver(i) ==
    /\ i \in DOMAIN tasks
    /\ Due(i)
    /\ tasks' = [tasks EXCEPT ![i].state = "fired"]
    /\ UNCHANGED <<users, questions, answers, tokens, chatLog, calls, now, last>>

\* a first attempt to invoke task i fails or is lost; the substrate keeps the task
fail(i) ==
    /\ i \in DOMAIN tasks
    /\ Due(i)
    /\ tasks[i].attempts = 0
    /\ tasks' = [tasks EXCEPT ![i].attempts = @ + 1]
    /\ UNCHANGED <<users, questions, answers, tokens, chatLog, calls, now, last>>

\* time passes: an idle step, or up to the eta of a pending task
Tick ==
    /\ \/ /\ now < MaxTicks * TickStep
          /\ now' = now + TickStep
       \/ \E i \in DOMAIN tasks :
             /\ tasks[i].state = "pending"
             /\ tasks[i].eta > now
             /\ now' = tasks[i].eta
    /\ UNCHANGED <<users, questions, answers, tokens, chatLog, tasks, calls, last>>

ReviewNext ==
    \/ \E question_id \in {1} :
          Len(tasks) < 3 * MaxTimedReviews /\ start_review(question_id, NoToken)
    \/ \E i \in 1..(3 * MaxTimedReviews) : deliver(i)
    \/ \E i \in 1..(3 * MaxTimedReviews) : fail(i)
    \/ Tick

ReviewSpec ==
    /\ Init
    /\ [][ReviewNext]_vars
    /\ WF_vars(Tick)
    /\ \A i \in 1..(3 * MaxTimedReviews) : WF_vars(deliver(i))

----------------------------------------------------------------------------
(* Vocabulary of the claims *)

Offsets == <<1200, 28800, 86400>>

Exists(question_id) == \E i \in DOMAIN questions : questions[i].id = question_id

Protected == {"import_questions", "generate_answer", "ocr", "start_review"}

\* the rows a step adds at the end of a table
Added(before, after) == SubSeq(after, Len(before) + 1, Len(after))

Extends(before, after) ==
    /\ Len(after) >= Len(before)
    /\ SubSeq(after, 1, Len(before)) = before

\* name ends in suffix, position by position
HasSuffix(name, suffix) ==
    \E p \in 0..Len(name) :
        /\ Len(name) - p = Len(suffix)
        /\ \A k \in 1..Len(suffix) : name[p + k] = suffix[k]

\* the lines of a text are what the line feeds (code point 10) delimit
LineStarts(text) == {1} \cup {i + 1 : i \in {j \in DOMAIN text : text[j] = 10}}

LineEnd(text, start) ==
    CHOOSE e \in start..(Len(text) + 1) :
        /\ e = Len(text) + 1 \/ text[e] = 10
        /\ \A j \in start..(e - 1) : text[j] # 10

NonBlankStarts(text) ==
    {st \in LineStarts(text) :
        \E j \in st..(LineEnd(text, st) - 1) : ~isspace(text[j])}

\* q is the line text[st .. en - 1] without its leading and trailing whitespace
IsTrimOf(q, text, st, en) ==
    \E a \in st..(en - 1), b \in st..(en - 1) :
        /\ q = SubSeq(text, a, b)
        /\ ~isspace(text[a]) /\ ~isspace(text[b])
        /\ \A j \in st..(a - 1) : isspace(text[j])
        /\ \A j \in (b + 1)..(en - 1) : isspace(text[j])

\* how many of the three deferred actions of the call numbered `call` have fired
FiredOf(call) ==
    Cardinality({i \in (3 * call + 1)..(3 * call + 3) :
                    i \in DOMAIN tasks /\ tasks[i].state = "fired"})

----------------------------------------------------------------------------
(* C1: a start-review call for a question id that exists submits exactly   *)
(* three deferred actions, in the order of the offsets 1200, 28800 and     *)
(* 86400 seconds, each with the payload (that id, its offset) and a        *)
(* countdown equal to its offset, and answers 'Review scheduled'.          *)
C1_ThreeActionsInOffsetOrder ==
    [][ (last'.op = "start_review" /\ Exists(last'.arg)) =>
          /\ Extends(tasks, tasks')
          /\ Len(tasks') = Len(tasks) + 3
          /\ \A k \in 1..3 :
                /\ tasks'[Len(tasks) + k].args = <<last'.arg, Offsets[k]>>
                /\ tasks'[Len(tasks) + k].countdown = Offsets[k]
          /\ last'.status = 200
          /\ last'.body = "Review scheduled" ]_vars

C1_Witness ==
    /\ last.op = "start_review"
    /\ Exists(last.arg)
    /\ Len(tasks) = 6

(* C2: after N start-review calls for a question id, exactly 3N deferred   *)
(* actions carry that id, whatever other operations ran in between.        *)
C2_ThreePerCall ==
    \A q \in QuestionIds :
        Cardinality({i \in DOMAIN tasks : tasks[i].args[1] = q}) = 3 * calls[q]

C2_Witness ==
    /\ calls[1] = 2
    /\ last.op = "generate_answer"
    /\ users # <<>>

(* C3: a register call for a new email succeeds and adds one User with     *)
(* that email; a register call for an email already stored fails with      *)
(* 'Email already registered' and leaves the user table unchanged; no two  *)
(* User rows ever share an email.                                          *)
C3_RegisterOncePerEmail ==
    /\ [][ last'.op = "register" =>
            IF \E i \in DOMAIN users : users[i].email = last'.arg.email
            THEN /\ last'.status = 400
                 /\ last'.body = "Email already registered"
                 /\ users' = users
            ELSE /\ last'.status = 200
                 /\ last'.body = "User created successfully"
                 /\ Extends(users, users')
                 /\ Len(users') = Len(users) + 1
                 /\ users'[Len(users')].email = last'.arg.email ]_vars
    /\ [](\A i, j \in DOMAIN users : users[i].email = users[j].email => i = j)

C3_Witness ==
    /\ last.op = "register"
    /\ last.status = 400
    /\ Len(users) = 2

(* C4: every Answer and every deferred action carries a question id that   *)
(* is in the question table at the moment the row or action is created.    *)
C4_ReferencesExistAtCreation ==
    [][ /\ \A i \in DOMAIN Added(answers, answers') :
              Exists(Added(answers, answers')[i].question_id)
        /\ \A i \in DOMAIN Added(tasks, tasks') :
              Exists(Added(tasks, tasks')[i].args[1]) ]_vars

(* C5: import-questions, generate-answer, ocr and start-review act and     *)
(* answer with a result only for a caller presenting a bearer token that   *)
(* login issued; any other request changes no store and schedules nothing. *)
C5_AuthenticatedBeforeDispatch ==
    [][ (last'.op \in Protected /\ last'.auth \notin tokens) =>
          /\ last'.status # 200
          /\ UNCHANGED stores ]_vars

(* C6: generate-answer for a question id that is not in the question table *)
(* fails with 'Question not found', sends nothing to the chat-completion   *)
(* capability and adds no Answer.                                          *)
C6_MissingQuestionNotFound ==
    [][ (last'.op = "generate_answer" /\ ~Exists(last'.arg)) =>
          /\ last'.status = 404
          /\ last'.body = "Question not found"
          /\ chatLog' = chatLog
          /\ answers' = answers ]_vars

C6_Witness ==
    /\ last.op = "generate_answer"
    /\ last.status = 404
    /\ questions # <<>>

(* C7: import-questions on a file whose name ends in neither .txt nor      *)
(* .docx fails with 'Unsupported file format' and adds no Question.        *)
C7_OtherExtensionUnsupported ==
    [][ ( /\ last'.op = "import_questions"
          /\ ~HasSuffix(last'.arg.filename, DotTxt)
          /\ ~HasSuffix(last'.arg.filename, DotDocx) ) =>
          /\ last'.status = 400
          /\ last'.body = "Unsupported file format"
          /\ questions' = questions ]_vars

C7_Witness ==
    /\ last.op = "import_questions"
    /\ last.arg.filename = <<"q", ".", "t", "x", "t", ".", "p", "d", "f">>
    /\ last.arg.bytes = <<97, 10, 10, 97>>
    /\ last.status = 400
    /\ Len(questions) = 2

(* C8: import-questions on a .txt file that decodes as UTF-8 adds one      *)
(* Question per non-blank line, in file order, blank lines dropped, each   *)
(* text being its line without the surrounding whitespace; the count in    *)
(* 'Imported N questions' is the number of rows the call added.            *)
C8_OneQuestionPerNonBlankLine ==
    [][ ( /\ last'.op = "import_questions"
          /\ HasSuffix(last'.arg.filename, DotTxt)
          /\ decodable(last'.arg.bytes) ) =>
          LET text == decode(last'.arg.bytes)
              new == Added(questions, questions')
              starts == NonBlankStarts(text)
          IN  /\ last'.status = 200
              /\ Extends(questions, questions')
              /\ Len(new) = Cardinality(starts)
              /\ last'.body = <<"Imported", Len(new), "questions">>
              /\ \A st \in starts :
                    LET k == Cardinality({x \in starts : x <= st})
                    IN  IsTrimOf(new[k].question_text, text, st, LineEnd(text, st)) ]_vars

C8_Witness ==
    /\ last.op = "import_questions"
    /\ last.arg.filename = <<"q", ".", "t", "x", "t">>
    /\ last.arg.bytes = <<97, 10, 10, 97>>
    /\ last.body = <<"Imported", 2, "questions">>
    /\ Len(questions) = 4

(* C9: login fails with 'Incorrect email or password' and issues no token  *)
(* when the email is unknown or the password does not verify against the   *)
(* hash stored for it; otherwise it issues a token bound to the email of   *)
(* the matched User.                                                       *)
C9_TokenOnlyForVerifiedLogin ==
    [][ last'.op = "login" =>
          LET matched == {i \in DOMAIN users :
                            /\ users[i].email = last'.arg.username
                            /\ verify_password(last'.arg.password,
                                               users[i].hashed_password)}
          IN  IF matched = {}
              THEN /\ last'.status = 400
                   /\ last'.body = "Incorrect email or password"
                   /\ tokens' = tokens
              ELSE /\ last'.status = 200
                   /\ last'.body.token_type = "bearer"
                   /\ \E i \in matched :
                         last'.body.access_token =
                             create_access_token([sub |-> users[i].email])
                   /\ tokens' = tokens \cup {last'.body.access_token} ]_vars

C9_Witness ==
    /\ last.op = "login"
    /\ last.status = 400
    /\ \E i \in DOMAIN users : users[i].email = last.arg.username
    /\ tokens # {}

(* C10: the three deferred actions of a start-review call made at time t   *)
(* are timed from t and independent: none fires before t plus its own      *)
(* offset, a step on one leaves the others as they are, no step withdraws  *)
(* a submitted action or un-fires a fired one, and with at-least-once      *)
(* delivery all three of every call eventually have fired.                 *)
C10_IndependentTimedDelivery ==
    /\ [][ /\ Len(tasks') >= Len(tasks)
           /\ \A i \in DOMAIN tasks :
                 (tasks[i].state = "pending" /\ tasks'[i].state = "fired") =>
                     now >= tasks[i].submitted + tasks[i].args[2]
           /\ \A i \in DOMAIN tasks :
                 /\ tasks'[i].args = tasks[i].args
                 /\ tasks'[i].eta = tasks[i].eta
                 /\ tasks[i].state = "fired" => tasks'[i].state = "fired"
           /\ \A i, j \in DOMAIN tasks :
                 (i # j /\ tasks'[i] # tasks[i]) => tasks'[j] = tasks[j] ]_vars
    /\ \A call \in 0..(MaxTimedReviews - 1) :
          (Len(tasks) >= 3 * call + 3) ~> (FiredOf(call) = 3)

C10_Witness ==
    /\ Len(tasks) = 3
    /\ tasks[1].submitted = TickStep
    /\ tasks[1].state = "pending" /\ tasks[1].attempts > 0
    /\ tasks[2].state = "fired"
    /\ tasks[3].state = "fired"

====
